---- MODULE Spec2Model ----
(***************************************************************************)
(* Model of the Kubernetes MCP server (src/k8s_mcp_server.py): the         *)
(* node/pod normalizers, the metrics join, the health classifier, the      *)
(* Karpenter inspector and the report-format dispatch of handle_call_tool. *)
(*                                                                         *)
(* One tool invocation is one action.  The answers of the external         *)
(* commands (kubectl) are the inputs of the invocation; they are drawn     *)
(* from bounded sets and kept in the variable env, the value handed back   *)
(* to the caller (or the exception that escapes) is kept in ret.           *)
(*                                                                         *)
(* An optional JSON field is modelled as a sequence of length 0 (the key   *)
(* is absent) or 1 (the key is present with that value).                   *)
(***************************************************************************)
EXTENDS Integers, Sequences, FiniteSets, TLC

VARIABLES pc, tool, env, ret, provider

vars == <<pc, tool, env, ret, provider>>

-----------------------------------------------------------------------------
(* Bounds of the model *)

MaxNodes == 2
MaxPods == 2

-----------------------------------------------------------------------------
(* Helpers for optional fields and sequences *)

Absent == <<>>
Some(v) == <<v>>
Has(f) == Len(f) = 1
Get(f) == f[1]

\* dict.get(key, default)
GetOr(f, default) == IF Has(f) THEN Get(f) ELSE default

\* the sequences over S of length at most n
SeqUpTo(S, n) == UNION {[1..k -> S] : k \in 0..n}

RECURSIVE SumSeq(_)
SumSeq(s) == IF s = <<>> THEN 0 ELSE Head(s) + SumSeq(Tail(s))

\* a value returned to the caller / an exception that escapes
Return(v, calls) == [exc |-> "none", value |-> v, calls |-> calls]
Raise(e, calls) == [exc |-> e, value |-> <<>>, calls |-> calls]

-----------------------------------------------------------------------------
(* _calculate_age: the timestamp is given by whether fromisoformat parses  *)
(* it and by delta = now - created in seconds; timedelta normalises to     *)
(* days = floor(delta / 86400), seconds = delta mod 86400.                 *)

calculate_age(timestamp) ==
    IF ~timestamp.parsable THEN "Unknown"
    ELSE LET days == timestamp.delta \div 86400
             seconds == timestamp.delta % 86400
         IN  IF days > 0 THEN ToString(days) \o "d"
             ELSE IF seconds > 3600 THEN ToString(seconds \div 3600) \o "h"
             ELSE ToString(seconds \div 60) \o "m"

-----------------------------------------------------------------------------
(* Metrics join: the output of "kubectl top" is a sequence of lines, each  *)
(* line the sequence of its whitespace-separated fields.                   *)

\* metrics_map of get_nodes_metrics and of get_pods_metrics(namespace != "all"):
\* the last line of at least 3 fields whose first field is key wins.
metrics_lookup_any_exit(top, key, field) ==
    LET hits == {i \in 1..Len(top.stdout) :
                    Len(top.stdout[i]) >= 3 /\ top.stdout[i][1] = key}
    IN  IF hits = {} THEN "N/A"
        ELSE LET last == CHOOSE i \in hits : \A j \in hits : j <= i
             IN  top.stdout[last][field + 1]
metrics_lookup(top, key, field) ==
    LET hits == {i \in 1..Len(top.stdout) :
                    Len(top.stdout[i]) >= 3 /\ top.stdout[i][1] = key}
    IN  IF top.code # 0 \/ hits = {} THEN "N/A"
        ELSE LET last == CHOOSE i \in hits : \A j \in hits : j <= i
             IN  top.stdout[last][field + 1]

\* metrics_map of get_pods_metrics(namespace == "all"): key "<namespace>:<name>"
metrics_lookup_all(top, ns, name, field) ==
    LET hits == {i \in 1..Len(top.stdout) :
                    /\ Len(top.stdout[i]) >= 4
                    /\ top.stdout[i][1] = ns
                    /\ top.stdout[i][2] = name}
    IN  IF top.code # 0 \/ hits = {} THEN "N/A"
        ELSE LET last == CHOOSE i \in hits : \A j \in hits : j <= i
             IN  top.stdout[last][field + 2]

-----------------------------------------------------------------------------
(* get_nodes_metrics *)

\* the subscripts of one loop iteration that raise KeyError
node_item_ok(node) ==
    /\ Has(node.name)
    /\ Has(node.conditions)
    /\ Has(node.creationTimestamp)
    /\ Has(node.kubeletVersion)

node_status(node) ==
    IF \E i \in 1..Len(Get(node.conditions)) :
           /\ Get(node.conditions)[i].type = "Ready"
           /\ Get(node.conditions)[i].status = "True"
    THEN "Ready" ELSE "NotReady"

NodeMetrics(node, top) ==
    [name |-> Get(node.name),
     cpu_usage |-> metrics_lookup(top, Get(node.name), 1),
     memory_usage |-> metrics_lookup(top, Get(node.name), 2),
     disk_usage |-> "N/A",
     status |-> node_status(node),
     age |-> calculate_age(Get(node.creationTimestamp)),
     version |-> Get(node.kubeletVersion),
     instance_type |-> node.instance_type,
     zone |-> node.zone]

get_nodes_metrics(listing, top) ==
    LET c1 == <<"get nodes">>
        c2 == <<"get nodes", "top nodes">>
        items == GetOr(listing.items, <<>>)
    IN  IF listing.code # 0 THEN Return(<<>>, c1)
        ELSE IF ~listing.json THEN Return(<<>>, c1)
        ELSE IF \E i \in 1..Len(items) : ~node_item_ok(items[i])
             THEN Raise("KeyError", c2)
        ELSE Return([i \in 1..Len(items) |-> NodeMetrics(items[i], top)], c2)

-----------------------------------------------------------------------------
(* get_pods_metrics *)

pod_item_ok(pod) ==
    /\ Has(pod.name)
    /\ Has(pod.namespace)
    /\ Has(pod.phase)
    /\ Has(pod.creationTimestamp)

\* sum(container_status.get('restartCount', 0) for ... in .get('containerStatuses', []))
pod_restarts(pod) ==
    LET statuses == GetOr(pod.containerStatuses, <<>>)
    IN  SumSeq([i \in 1..Len(statuses) |-> GetOr(statuses[i], 0)])

PodMetrics(pod, top, namespace) ==
    LET name == Get(pod.name)
        ns == Get(pod.namespace)
    IN  [name |-> name,
         namespace |-> ns,
         status |-> Get(pod.phase),
         cpu_usage |-> IF namespace = "all"
                       THEN metrics_lookup_all(top, ns, name, 1)
                       ELSE metrics_lookup(top, name, 1),
         memory_usage |-> IF namespace = "all"
                          THEN metrics_lookup_all(top, ns, name, 2)
                          ELSE metrics_lookup(top, name, 2),
         restarts |-> pod_restarts(pod),
         age |-> calculate_age(Get(pod.creationTimestamp)),
         node |-> GetOr(pod.nodeName, "N/A")]

get_pods_metrics(listing, top, namespace) ==
    LET c1 == <<"get pods">>
        c2 == <<"get pods", "top pods">>
        items == GetOr(listing.items, <<>>)
    IN  IF listing.code # 0 THEN Return(<<>>, c1)
        ELSE IF ~listing.json THEN Return(<<>>, c1)
        ELSE IF \E i \in 1..Len(items) : ~pod_item_ok(items[i])
             THEN Raise("KeyError", c2)
        ELSE Return([i \in 1..Len(items) |-> PodMetrics(items[i], top, namespace)], c2)

-----------------------------------------------------------------------------
(* analyze_cluster_health: the classifier over the normalized records *)

RestartThreshold == 5

IsReady(node) == node.status = "Ready"
IsRunning(pod) == pod.status = "Running"
IsPending(pod) == pod.status = "Pending"
IsFailed(pod) == pod.status \in {"Failed", "CrashLoopBackOff"}

HighRestart_inclusive(pod) == pod.restarts >= RestartThreshold
HighRestart(pod) == pod.restarts > RestartThreshold

\* high_restart_pods = [pod for pod in pods if pod.restarts > 5]
high_restart_pods(pods) == SelectSeq(pods, HighRestart)

critical_issues_pods_only(unhealthy_nodes, failed_pods) ==
    IF failed_pods > 0
    THEN <<ToString(failed_pods) \o " pods are in failed state">>
    ELSE <<>>
critical_issues_of(unhealthy_nodes, failed_pods) ==
    (IF unhealthy_nodes > 0
     THEN <<ToString(unhealthy_nodes) \o " nodes are not ready">>
     ELSE <<>>)
    \o
    (IF failed_pods > 0
     THEN <<ToString(failed_pods) \o " pods are in failed state">>
     ELSE <<>>)

warnings_of(pending_pods, high) ==
    (IF pending_pods > 0
     THEN <<ToString(pending_pods) \o " pods are pending">>
     ELSE <<>>)
    \o
    (IF high # <<>>
     THEN <<ToString(Len(high)) \o " pods have high restart counts">>
     ELSE <<>>)

RecNodes == "Investigate unhealthy nodes and consider replacement"
RecResources == "Check resource constraints and node availability"
RecRestarts == "Investigate pods with high restart counts for stability issues"

recommendations_pending_first(unhealthy_nodes, pending_pods, high) ==
    (IF pending_pods > 0 THEN <<RecResources>> ELSE <<>>)
    \o (IF unhealthy_nodes > 0 THEN <<RecNodes>> ELSE <<>>)
    \o (IF high # <<>> THEN <<RecRestarts>> ELSE <<>>)
recommendations_of(unhealthy_nodes, pending_pods, high) ==
    (IF unhealthy_nodes > 0 THEN <<RecNodes>> ELSE <<>>)
    \o (IF pending_pods > 0 THEN <<RecResources>> ELSE <<>>)
    \o (IF high # <<>> THEN <<RecRestarts>> ELSE <<>>)

overall_status_warnings_first(critical_issues, warnings) ==
    IF warnings # <<>> THEN "Warning"
    ELSE IF critical_issues # <<>> THEN "Critical"
    ELSE "Healthy"
overall_status_of(critical_issues, warnings) ==
    IF critical_issues # <<>> THEN "Critical"
    ELSE IF warnings # <<>> THEN "Warning"
    ELSE "Healthy"

ClusterHealth(nodes, pods) ==
    LET healthy_nodes == Len(SelectSeq(nodes, IsReady))
        unhealthy_nodes == Len(nodes) - healthy_nodes
        running_pods == Len(SelectSeq(pods, IsRunning))
        pending_pods == Len(SelectSeq(pods, IsPending))
        failed_pods == Len(SelectSeq(pods, IsFailed))
        high == high_restart_pods(pods)
        critical_issues == critical_issues_of(unhealthy_nodes, failed_pods)
        warnings == warnings_of(pending_pods, high)
    IN  [overall_status |-> overall_status_of(critical_issues, warnings),
         node_count |-> Len(nodes),
         healthy_nodes |-> healthy_nodes,
         unhealthy_nodes |-> unhealthy_nodes,
         total_pods |-> Len(pods),
         running_pods |-> running_pods,
         pending_pods |-> pending_pods,
         failed_pods |-> failed_pods,
         cpu_utilization |-> 0,
         memory_utilization |-> 0,
         disk_utilization |-> 0,
         critical_issues |-> critical_issues,
         warnings |-> warnings,
         recommendations |-> recommendations_of(unhealthy_nodes, pending_pods, high)]

\* nodes = await get_nodes_metrics(); pods = await get_pods_metrics(); an
\* exception of either call escapes before the next statement runs
analyze_cluster_health(nodes_listing, nodes_top, pods_listing, pods_top) ==
    LET n == get_nodes_metrics(nodes_listing, nodes_top)
        p == get_pods_metrics(pods_listing, pods_top, "all")
    IN  IF n.exc # "none" THEN Raise(n.exc, n.calls)
        ELSE IF p.exc # "none" THEN Raise(p.exc, n.calls \o p.calls)
        ELSE Return(ClusterHealth(n.value, p.value), n.calls \o p.calls)

-----------------------------------------------------------------------------
(* analyze_karpenter.  An image is the sequence of its ':'-separated       *)
(* parts; version = image.split(':')[-1].                                  *)

\* the image parts of the model that contain the substring 'karpenter'
KarpenterParts == {"public.ecr.aws/karpenter/controller", "karpenter"}

contains_karpenter(image) == \E i \in 1..Len(image) : image[i] \in KarpenterParts

KarpenterIssue(e) == "Error analyzing Karpenter: " \o e

KarpenterDefaults ==
    [installed |-> FALSE, version |-> Absent, node_pools |-> <<>>,
     provisioned_nodes |-> 0, issues |-> <<>>, recommendations |-> <<>>]

\* the version loop: the first container whose image contains 'karpenter';
\* a container without 'image' before it raises KeyError
first_karpenter(containers) ==
    LET hits == {i \in 1..Len(containers) :
                    Has(containers[i].image) /\ contains_karpenter(Get(containers[i].image))}
        bad == {i \in 1..Len(containers) : ~Has(containers[i].image)}
        Min(S) == CHOOSE i \in S : \A j \in S : i <= j
    IN  IF hits = {} THEN [exc |-> bad # {}, version |-> Absent]
        ELSE IF bad # {} /\ Min(bad) < Min(hits) THEN [exc |-> TRUE, version |-> Absent]
        ELSE LET image == Get(containers[Min(hits)].image)
             IN  [exc |-> FALSE, version |-> Some(image[Len(image)])]

node_pool(np) ==
    [name |-> Get(np.name),
     instance_types |-> GetOr(np.requirements, <<>>),
     limits |-> GetOr(np.limits, <<>>)]

\* the steps after the presence check, each on the analysis so far; a step
\* that raises appends the issue and ends the analysis
karpenter_version(a, deployment) ==
    IF ~deployment.json
    THEN [done |-> TRUE, a |-> [a EXCEPT !.issues = @ \o <<KarpenterIssue("JSONDecodeError")>>]]
    ELSE IF ~Has(deployment.containers)
    THEN [done |-> TRUE, a |-> [a EXCEPT !.issues = @ \o <<KarpenterIssue("KeyError")>>]]
    ELSE LET f == first_karpenter(Get(deployment.containers))
         IN  IF f.exc
             THEN [done |-> TRUE, a |-> [a EXCEPT !.issues = @ \o <<KarpenterIssue("KeyError")>>]]
             ELSE [done |-> FALSE, a |-> [a EXCEPT !.version = f.version]]

karpenter_node_pools_abort_on_exit(a, nodepools) ==
    IF nodepools.code # 0
    THEN [done |-> TRUE, a |-> [a EXCEPT !.issues = @ \o <<KarpenterIssue("exit")>>]]
    ELSE IF ~nodepools.json
    THEN [done |-> TRUE, a |-> [a EXCEPT !.issues = @ \o <<KarpenterIssue("JSONDecodeError")>>]]
    ELSE LET items == GetOr(nodepools.items, <<>>)
         IN  IF \E i \in 1..Len(items) : ~Has(items[i].name)
             THEN [done |-> TRUE, a |-> [a EXCEPT !.issues = @ \o <<KarpenterIssue("KeyError")>>]]
             ELSE [done |-> FALSE,
                   a |-> [a EXCEPT !.node_pools = [i \in 1..Len(items) |-> node_pool(items[i])]]]
karpenter_node_pools(a, nodepools) ==
    IF nodepools.code # 0 THEN [done |-> FALSE, a |-> a]
    ELSE IF ~nodepools.json
    THEN [done |-> TRUE, a |-> [a EXCEPT !.issues = @ \o <<KarpenterIssue("JSONDecodeError")>>]]
    ELSE LET items == GetOr(nodepools.items, <<>>)
         IN  IF \E i \in 1..Len(items) : ~Has(items[i].name)
             THEN [done |-> TRUE, a |-> [a EXCEPT !.issues = @ \o <<KarpenterIssue("KeyError")>>]]
             ELSE [done |-> FALSE,
                   a |-> [a EXCEPT !.node_pools = [i \in 1..Len(items) |-> node_pool(items[i])]]]

karpenter_provisioned_silent(a, provisioned) ==
    IF provisioned.code # 0 \/ ~provisioned.json THEN a
    ELSE [a EXCEPT !.provisioned_nodes = Len(GetOr(provisioned.items, <<>>))]
karpenter_provisioned(a, provisioned) ==
    IF provisioned.code # 0 THEN a
    ELSE IF ~provisioned.json
    THEN [a EXCEPT !.issues = @ \o <<KarpenterIssue("JSONDecodeError")>>]
    ELSE [a EXCEPT !.provisioned_nodes = Len(GetOr(provisioned.items, <<>>))]

CallDeployment == "get deployment karpenter"
CallNodePools == "get nodepools"
CallProvisioned == "get nodes -l karpenter.sh/provisioner-name"

analyze_karpenter_count_always(deployment, nodepools, provisioned) ==
    LET a0 == [KarpenterDefaults EXCEPT !.installed = TRUE]
        v == karpenter_version(a0, deployment)
        n == karpenter_node_pools(v.a, nodepools)
    IN  IF deployment.code # 0
        THEN Return(karpenter_provisioned(KarpenterDefaults, provisioned),
                    <<CallDeployment, CallProvisioned>>)
        ELSE IF v.done THEN Return(v.a, <<CallDeployment>>)
        ELSE IF n.done THEN Return(n.a, <<CallDeployment, CallNodePools>>)
        ELSE Return(karpenter_provisioned(n.a, provisioned),
                    <<CallDeployment, CallNodePools, CallProvisioned>>)
analyze_karpenter(deployment, nodepools, provisioned) ==
    IF deployment.code # 0 THEN Return(KarpenterDefaults, <<CallDeployment>>)
    ELSE LET a0 == [KarpenterDefaults EXCEPT !.installed = TRUE]
             v == karpenter_version(a0, deployment)
             n == karpenter_node_pools(v.a, nodepools)
         IN  IF v.done THEN Return(v.a, <<CallDeployment>>)
             ELSE IF n.done THEN Return(n.a, <<CallDeployment, CallNodePools>>)
             ELSE Return(karpenter_provisioned(n.a, provisioned),
                         <<CallDeployment, CallNodePools, CallProvisioned>>)

-----------------------------------------------------------------------------
(* get_argocd_status *)

ArgoDefaults ==
    [installed |-> FALSE, applications |-> <<>>,
     health_status |-> "Unknown", sync_status |-> "Unknown"]

app_item_ok(app) == Has(app.name) /\ Has(app.repo)

app_info_absent_synced(app) ==
    [name |-> Get(app.name),
     health |-> GetOr(app.health, "Unknown"),
     sync |-> GetOr(app.sync, "Synced"),
     repo |-> Get(app.repo)]
app_info(app) ==
    [name |-> Get(app.name),
     health |-> GetOr(app.health, "Unknown"),
     sync |-> GetOr(app.sync, "Unknown"),
     repo |-> Get(app.repo)]

IsHealthyApp(info) == info.health = "Healthy"
IsSyncedApp(info) == info.sync = "Synced"

\* applications are appended one by one: an entry that raises leaves the
\* entries before it in the list and the two ratios at "Unknown"
get_argocd_status(apps) ==
    IF apps.code # 0 THEN Return(ArgoDefaults, <<"get applications">>)
    ELSE IF ~apps.json
    THEN Return([ArgoDefaults EXCEPT !.installed = TRUE], <<"get applications">>)
    ELSE LET items == GetOr(apps.items, <<>>)
             bad == {i \in 1..Len(items) : ~app_item_ok(items[i])}
             n == IF bad = {} THEN Len(items)
                  ELSE (CHOOSE i \in bad : \A j \in bad : i <= j) - 1
             infos == [i \in 1..n |-> app_info(items[i])]
             total_apps == Len(items)
         IN  Return(
               [installed |-> TRUE,
                applications |-> infos,
                health_status |->
                    IF bad = {} /\ total_apps > 0
                    THEN ToString(Len(SelectSeq(infos, IsHealthyApp))) \o "/"
                         \o ToString(total_apps) \o " Healthy"
                    ELSE "Unknown",
                sync_status |->
                    IF bad = {} /\ total_apps > 0
                    THEN ToString(Len(SelectSeq(infos, IsSyncedApp))) \o "/"
                         \o ToString(total_apps) \o " Synced"
                    ELSE "Unknown"],
               <<"get applications">>)

-----------------------------------------------------------------------------
(* generate_health_report: the three encodings.  A report is modelled by   *)
(* the data its text carries, section by section.                          *)

NodeTableLimit == 10
ProblemPodLimit == 20

Prefix_one_more(s, n) == SubSeq(s, 1, IF Len(s) < n + 1 THEN Len(s) ELSE n + 1)
Prefix(s, n) == SubSeq(s, 1, IF Len(s) < n THEN Len(s) ELSE n)

IsProblemPod_inclusive(pod) == pod.status # "Running" \/ pod.restarts >= RestartThreshold
IsProblemPod(pod) == pod.status # "Running" \/ pod.restarts > RestartThreshold

node_row(node) ==
    [name |-> node.name, status |-> node.status, cpu_usage |-> node.cpu_usage,
     memory_usage |-> node.memory_usage, age |-> node.age, version |-> node.version,
     instance_type |-> GetOr(node.instance_type, "N/A")]

pod_row(pod) ==
    [name |-> pod.name, namespace |-> pod.namespace, status |-> pod.status,
     restarts |-> pod.restarts, node |-> pod.node]

generate_markdown_report(health, nodes, pods, karpenter, argocd, include_recommendations, now, prov) ==
    LET problem_pods == SelectSeq(pods, IsProblemPod)
    IN  [encoding |-> "markdown",
         generated |-> now,
         provider |-> prov,
         overall_status |-> health.overall_status,
         summary |-> [node_count |-> health.node_count,
                      healthy_nodes |-> health.healthy_nodes,
                      unhealthy_nodes |-> health.unhealthy_nodes,
                      total_pods |-> health.total_pods,
                      running_pods |-> health.running_pods,
                      pending_pods |-> health.pending_pods,
                      failed_pods |-> health.failed_pods,
                      cpu_utilization |-> health.cpu_utilization,
                      memory_utilization |-> health.memory_utilization],
         critical_issues |-> IF health.critical_issues # <<>> THEN health.critical_issues
                             ELSE <<"No critical issues detected">>,
         warnings |-> IF health.warnings # <<>> THEN health.warnings
                      ELSE <<"No warnings">>,
         node_heading |-> Len(nodes),
         node_rows |-> [i \in 1..Len(Prefix(nodes, NodeTableLimit)) |-> node_row(nodes[i])],
         more_nodes |-> IF Len(nodes) > NodeTableLimit
                        THEN Some(Len(nodes) - NodeTableLimit) ELSE Absent,
         problem_heading |-> IF problem_pods # <<>> THEN Some(Len(problem_pods)) ELSE Absent,
         problem_rows |-> [i \in 1..Len(Prefix(problem_pods, ProblemPodLimit)) |->
                              pod_row(problem_pods[i])],
         karpenter |-> IF karpenter.installed
                       THEN Some([version |-> karpenter.version,
                                  node_pools |-> Len(karpenter.node_pools),
                                  provisioned_nodes |-> karpenter.provisioned_nodes,
                                  issues |-> karpenter.issues])
                       ELSE Absent,
         argocd |-> IF argocd.installed
                    THEN Some([applications |-> Len(argocd.applications),
                               health |-> argocd.health_status,
                               sync |-> argocd.sync_status,
                               apps |-> Prefix(argocd.applications, 10)])
                    ELSE Absent,
         recommendations |-> IF include_recommendations THEN health.recommendations
                             ELSE <<>>]

\* report_data of the yaml and json branches (the same dictionary)
report_data(encoding, health, nodes, karpenter, argocd, now) ==
    [encoding |-> encoding,
     cluster_health |-> health,
     nodes |-> nodes,
     karpenter |-> karpenter,
     argocd |-> argocd,
     generated_at |-> now]

\* the format dispatch of handle_call_tool: markdown, yaml, else json
render(format_type, health, nodes, pods, karpenter, argocd, include_recommendations, now, prov) ==
    IF format_type = "markdown"
    THEN generate_markdown_report(health, nodes, pods, karpenter, argocd,
                                  include_recommendations, now, prov)
    ELSE IF format_type = "yaml"
    THEN report_data("yaml", health, nodes, karpenter, argocd, now)
    ELSE report_data("json", health, nodes, karpenter, argocd, now)

\* the five awaits in order; the first exception escapes
generate_health_report(arguments, e, prov) ==
    LET format_type == GetOr(arguments.format, "markdown")
        include_recommendations == GetOr(arguments.include_recommendations, TRUE)
        health == analyze_cluster_health(e.health_nodes, e.nodes_top, e.health_pods, e.pods_top)
        nodes == get_nodes_metrics(e.nodes, e.nodes_top)
        pods == get_pods_metrics(e.pods, e.pods_top, "all")
        karpenter == analyze_karpenter(e.deployment, e.nodepools, e.provisioned)
        argocd == get_argocd_status(e.applications)
    IN  IF health.exc # "none" THEN Raise(health.exc, health.calls)
        ELSE IF nodes.exc # "none" THEN Raise(nodes.exc, health.calls \o nodes.calls)
        ELSE IF pods.exc # "none"
        THEN Raise(pods.exc, health.calls \o nodes.calls \o pods.calls)
        ELSE Return(render(format_type, health.value, nodes.value, pods.value,
                           karpenter.value, argocd.value, include_recommendations,
                           e.now, prov),
                    health.calls \o nodes.calls \o pods.calls
                        \o karpenter.calls \o argocd.calls)

-----------------------------------------------------------------------------
(* The answers of the external commands, drawn from bounded sets.  The     *)
(* i-th item of a listing is named after its position: names are unique    *)
(* within a listing.                                                       *)

NodeName(i) == "node-" \o ToString(i)
PodName(i) == "pod-" \o ToString(i)

Cond(t, st) == [type |-> t, status |-> st]
Stamp(d) == Some([parsable |-> TRUE, delta |-> d])
BadStamp == Some([parsable |-> FALSE, delta |-> 0])

NodeVariant(c, t, v, it) ==
    [conditions |-> c, creationTimestamp |-> t, kubeletVersion |-> v,
     instance_type |-> it, zone |-> Absent]

ReadyNode == NodeVariant(Some(<<Cond("Ready", "True")>>), Stamp(90000),
                         Some("v1.29.0"), Some("m5.large"))
NotReadyNode == NodeVariant(Some(<<Cond("Ready", "False")>>), Stamp(7200),
                            Some("v1.29.0"), Absent)
NoConditionsNode == NodeVariant(Absent, Stamp(90), Some("v1.29.0"), Absent)

NodeVariants ==
    {ReadyNode, NotReadyNode, NoConditionsNode,
     NodeVariant(Some(<<Cond("MemoryPressure", "True")>>), Stamp(90), Some("v1.28.3"), Absent),
     NodeVariant(Some(<<Cond("MemoryPressure", "False"), Cond("Ready", "True")>>),
                 BadStamp, Some("v1.28.3"), Absent),
     NodeVariant(Some(<<>>), Stamp(0 - 60), Some("v1.29.0"), Absent),
     NodeVariant(Some(<<Cond("Ready", "True")>>), Absent, Some("v1.29.0"), Absent),
     NodeVariant(Some(<<Cond("Ready", "True")>>), Stamp(3600), Absent, Absent)}

PodVariant(ph, cs, nn) ==
    [namespace |-> Some("default"), phase |-> ph, containerStatuses |-> cs,
     creationTimestamp |-> Stamp(7200), nodeName |-> nn]

RunningPod == PodVariant(Some("Running"), Some(<<Some(0)>>), Some("node-1"))
AtThresholdPod == PodVariant(Some("Running"), Some(<<Some(5)>>), Some("node-1"))
OverThresholdPod == PodVariant(Some("Running"), Some(<<Some(3), Some(3)>>), Some("node-2"))
PendingPod == PodVariant(Some("Pending"), Absent, Absent)
NoPhasePod == PodVariant(Absent, Absent, Some("node-1"))

PodVariants ==
    {RunningPod, AtThresholdPod, OverThresholdPod, PendingPod, NoPhasePod,
     PodVariant(Some("Failed"), Some(<<Absent>>), Some("node-1")),
     PodVariant(Some("CrashLoopBackOff"), Some(<<Some(6)>>), Some("node-2")),
     PodVariant(Some("Succeeded"), Some(<<Some(1)>>), Some("node-1"))}

WithName(variant, name) ==
    [f \in DOMAIN variant \cup {"name"} |->
        IF f = "name" THEN Some(name) ELSE variant[f]]
NamedNodes(variants) == [i \in 1..Len(variants) |-> WithName(variants[i], NodeName(i))]
NamedPods(variants) == [i \in 1..Len(variants) |-> WithName(variants[i], PodName(i))]

\* a listing answer: exit code, whether stdout parses as JSON, its 'items'
Payload(code, json, items) == [code |-> code, json |-> json, items |-> items]
FailedFetch == Payload(1, TRUE, Absent)
NotJson == Payload(0, FALSE, Absent)
NoItems == Payload(0, TRUE, Absent)

NodeListings ==
    {FailedFetch, NotJson, NoItems}
    \cup {Payload(0, TRUE, Some(NamedNodes(s))) : s \in SeqUpTo(NodeVariants, MaxNodes)}
PodListings ==
    {FailedFetch, NotJson, NoItems}
    \cup {Payload(0, TRUE, Some(NamedPods(s))) : s \in SeqUpTo(PodVariants, MaxPods)}

\* "kubectl top" answers: exit code and the lines of stdout
Top(code, lines) == [code |-> code, stdout |-> lines]

NodeTopLines ==
    {<<>>,
     <<<<"node-1", "250m", "1Gi">>>>,
     <<<<"node-1", "250m">>, <<>>, <<"node-2", "500m", "2Gi">>>>,
     <<<<"node-1", "250m", "1Gi">>, <<"node-1", "300m", "3Gi", "12%">>>>}

PodTopLines ==
    {<<>>,
     <<<<"pod-1", "10m", "64Mi">>>>,
     <<<<"default", "pod-1", "10m", "64Mi">>, <<"default", "pod-2", "20m">>>>,
     <<<<"default", "pod-2", "20m", "32Mi">>, <<"pod-2", "25m", "48Mi">>>>}

NodeTops == {Top(c, l) : c \in {0, 1}, l \in NodeTopLines}
PodTops == {Top(c, l) : c \in {0, 1}, l \in PodTopLines}

Namespaces == {"all", "default"}

\* answers of the three Karpenter probes
MaxPools == 2

Deployment(code, json, containers) ==
    [code |-> code, json |-> json, containers |-> containers]
Container(image) == [image |-> image]

KarpenterImage == <<"public.ecr.aws/karpenter/controller", "v0.32.1">>
PortImage == <<"registry.local", "5000/sidecar", "1.4">>

Deployments ==
    {Deployment(1, TRUE, Absent),
     Deployment(0, FALSE, Absent),
     Deployment(0, TRUE, Absent),
     Deployment(0, TRUE, Some(<<Container(Some(KarpenterImage))>>)),
     Deployment(0, TRUE, Some(<<Container(Some(PortImage)), Container(Some(KarpenterImage))>>)),
     Deployment(0, TRUE, Some(<<Container(Absent), Container(Some(KarpenterImage))>>)),
     Deployment(0, TRUE, Some(<<Container(Some(<<"karpenter">>)), Container(Absent)>>)),
     Deployment(0, TRUE, Some(<<Container(Some(PortImage))>>))}

PoolVariants ==
    {[name |-> Some("default"), requirements |-> Some(<<"m5.large">>), limits |-> Some(<<"cpu=100">>)],
     [name |-> Some("spot"), requirements |-> Absent, limits |-> Absent],
     [name |-> Absent, requirements |-> Absent, limits |-> Absent]}

NodePoolAnswers ==
    {FailedFetch, NotJson, NoItems}
    \cup {Payload(0, TRUE, Some(s)) : s \in SeqUpTo(PoolVariants, MaxPools)}

ProvisionedAnswers ==
    {FailedFetch, NotJson, NoItems}
    \cup {Payload(0, TRUE, Some([i \in 1..k |-> NodeName(i)])) : k \in 0..MaxNodes}

\* answers of the ArgoCD application listing
MaxApps == 2

AppVariants ==
    {[name |-> Some("web"), health |-> Some("Healthy"), sync |-> Some("Synced"), repo |-> Some("git://web")],
     [name |-> Some("api"), health |-> Some("Degraded"), sync |-> Absent, repo |-> Some("git://api")],
     [name |-> Some("db"), health |-> Absent, sync |-> Some("OutOfSync"), repo |-> Absent]}

ApplicationAnswers ==
    {FailedFetch, NotJson, NoItems}
    \cup {Payload(0, TRUE, Some(s)) : s \in SeqUpTo(AppVariants, MaxApps)}

\* the inputs of generate_health_report
Formats == {Some("markdown"), Some("json"), Some("yaml"), Some("xml"), Absent}
Flags == {Some(TRUE), Some(FALSE), Absent}
Clock == {1714000000, 1714000001}
Providers == {"eks", "gke", "aks", "generic"}

ReportNodeListings ==
    {Payload(0, TRUE, Some(NamedNodes(<<NoConditionsNode>>)))}
    \cup {Payload(0, TRUE, Some(NamedNodes(s))) :
            s \in SeqUpTo({ReadyNode, NotReadyNode}, MaxNodes)}
ReportPodListings ==
    {Payload(0, TRUE, Some(NamedPods(<<RunningPod>>))),
     Payload(0, TRUE, Some(NamedPods(<<PendingPod, OverThresholdPod>>)))}
ReportAddons ==
    {<<Deployment(1, TRUE, Absent), FailedFetch>>,
     <<Deployment(0, TRUE, Some(<<Container(Some(KarpenterImage))>>)),
       Payload(0, TRUE, Some(<<[name |-> Some("web"), health |-> Some("Healthy"),
                                sync |-> Some("Synced"), repo |-> Some("git://web")]>>))>>}

-----------------------------------------------------------------------------
(* State machine: handle_call_tool, one action per tool *)

NoValue == [exc |-> "none", value |-> <<>>, calls |-> <<>>]

Init ==
    /\ pc = "idle"
    /\ tool = "none"
    /\ env = <<>>
    /\ ret = NoValue
    /\ provider \in Providers

Invoke(name, e, r) ==
    /\ pc' = "returned"
    /\ tool' = name
    /\ env' = e
    /\ ret' = r
    /\ UNCHANGED provider

cluster_health_check ==
    /\ pc = "idle"
    /\ \E nl \in ReportNodeListings \cup {NotJson, NoItems}, nt \in {Top(1, <<>>), Top(0, <<<<"node-1", "250m", "1Gi">>>>)},
       pl \in PodListings, pt \in {Top(1, <<>>)} :
        Invoke("cluster_health_check",
               [nodes |-> nl, nodes_top |-> nt, pods |-> pl, pods_top |-> pt],
               analyze_cluster_health(nl, nt, pl, pt))

get_nodes_status ==
    /\ pc = "idle"
    /\ \E nl \in NodeListings, nt \in NodeTops :
        Invoke("get_nodes_status",
               [nodes |-> nl, nodes_top |-> nt],
               get_nodes_metrics(nl, nt))

get_pods_status ==
    /\ pc = "idle"
    /\ \E namespace \in Namespaces, pl \in PodListings, pt \in PodTops :
        Invoke("get_pods_status",
               [namespace |-> namespace, pods |-> pl, pods_top |-> pt],
               get_pods_metrics(pl, pt, namespace))

analyze_karpenter_tool ==
    /\ pc = "idle"
    /\ \E d \in Deployments, np \in NodePoolAnswers, pn \in ProvisionedAnswers :
        Invoke("analyze_karpenter",
               [deployment |-> d, nodepools |-> np, provisioned |-> pn],
               analyze_karpenter(d, np, pn))

get_argocd_status_tool ==
    /\ pc = "idle"
    /\ \E a \in ApplicationAnswers :
        Invoke("get_argocd_status",
               [applications |-> a],
               get_argocd_status(a))

generate_health_report_tool ==
    /\ pc = "idle"
    /\ \E f \in Formats, ir \in Flags, now \in Clock,
          hn \in ReportNodeListings, nl \in ReportNodeListings,
          hp \in ReportPodListings, pl \in ReportPodListings,
          addons \in ReportAddons :
        LET e == [arguments |-> [format |-> f, include_recommendations |-> ir],
                  health_nodes |-> hn, health_pods |-> hp,
                  nodes |-> nl, pods |-> pl,
                  nodes_top |-> Top(1, <<>>), pods_top |-> Top(1, <<>>),
                  deployment |-> addons[1],
                  nodepools |-> Payload(0, TRUE, Some(<<>>)),
                  provisioned |-> Payload(0, TRUE, Some(<<NodeName(1)>>)),
                  applications |-> addons[2],
                  now |-> now]
        IN  Invoke("generate_health_report", e,
                   generate_health_report(e.arguments, e, provider))

\* generate_health_report on clusters larger than the tables of the markdown
\* report; the cluster does not change during the invocation
MaxExtraNodes == 5
MaxExtraPods == 2

Cycle(pattern, n) == [i \in 1..n |-> pattern[((i - 1) % Len(pattern)) + 1]]

NodePatterns ==
    {<<ReadyNode>>, <<ReadyNode, NotReadyNode>>, <<NotReadyNode, ReadyNode, ReadyNode>>}
PodPatterns ==
    {<<OverThresholdPod>>,
     <<PendingPod, RunningPod>>,
     <<AtThresholdPod, OverThresholdPod,
       PodVariant(Some("Failed"), Some(<<Absent>>), Some("node-1"))>>}

LargeNodeCounts == 0..(NodeTableLimit + MaxExtraNodes)
LargePodCounts ==
    (0..2)
    \cup (ProblemPodLimit..(ProblemPodLimit + MaxExtraPods))
    \cup ((ProblemPodLimit + 11)..(ProblemPodLimit + 11 + MaxExtraPods))

LargeNodeListings ==
    {Payload(0, TRUE, Some(NamedNodes(Cycle(p, n)))) : p \in NodePatterns, n \in LargeNodeCounts}
LargePodListings ==
    {Payload(0, TRUE, Some(NamedPods(Cycle(p, n)))) : p \in PodPatterns, n \in LargePodCounts}

generate_health_report_large ==
    /\ pc = "idle"
    /\ \E f \in {Some("markdown"), Absent}, ir \in {Some(TRUE), Absent},
          nl \in LargeNodeListings, pl \in LargePodListings :
        LET e == [arguments |-> [format |-> f, include_recommendations |-> ir],
                  health_nodes |-> nl, health_pods |-> pl,
                  nodes |-> nl, pods |-> pl,
                  nodes_top |-> Top(1, <<>>), pods_top |-> Top(1, <<>>),
                  deployment |-> Deployment(1, TRUE, Absent),
                  nodepools |-> FailedFetch,
                  provisioned |-> FailedFetch,
                  applications |-> FailedFetch,
                  now |-> 1714000000]
        IN  Invoke("generate_health_report", e,
                   generate_health_report(e.arguments, e, provider))

\* the text is handed to the caller; the records of the invocation are dropped
Respond ==
    /\ pc = "returned"
    /\ pc' = "idle"
    /\ tool' = "none"
    /\ env' = <<>>
    /\ ret' = NoValue
    /\ UNCHANGED provider

\* the status tools
Next ==
    \/ cluster_health_check
    \/ get_nodes_status
    \/ get_pods_status
    \/ analyze_karpenter_tool
    \/ get_argocd_status_tool
    \/ Respond

Spec == Init /\ [][Next]_vars

\* the report tool
NextReport ==
    \/ generate_health_report_tool
    \/ Respond

SpecReport == Init /\ [][NextReport]_vars

\* the report tool on large clusters
NextLargeReport ==
    \/ generate_health_report_large
    \/ Respond

SpecLargeReport == Init /\ [][NextLargeReport]_vars

-----------------------------------------------------------------------------
(* Properties *)

Returned(name) == pc = "returned" /\ tool = name
HealthReturned == Returned("cluster_health_check") /\ ret.exc = "none"

\* the pods of the listing the health check read, before normalization
ListedPods == GetOr(env.pods.items, <<>>)
ListedNodes == GetOr(env.nodes.items, <<>>)
OverFive == {i \in 1..Len(ListedPods) : pod_restarts(ListedPods[i]) > 5}
RestartEntries == {ToString(k) \o " pods have high restart counts" : k \in 0..(MaxPods + 1)}
InSeq(x, s) == \E i \in 1..Len(s) : s[i] = x

\* C1: the overall status of a ClusterHealth is Critical iff critical_issues
\* is non-empty, Warning iff critical_issues is empty and warnings is not,
\* Healthy iff both lists are empty.
C1_StatusDerivedFromLists ==
    HealthReturned =>
        LET h == ret.value
        IN  /\ (h.overall_status = "Critical") <=> (h.critical_issues # <<>>)
            /\ (h.overall_status = "Warning")
                   <=> (h.critical_issues = <<>> /\ h.warnings # <<>>)
            /\ (h.overall_status = "Healthy")
                   <=> (h.critical_issues = <<>> /\ h.warnings = <<>>)

C1_Witness ==
    /\ HealthReturned
    /\ ret.value.overall_status = "Warning"
    /\ ret.value.critical_issues = <<>>
    /\ Len(ret.value.warnings) = 2

\* C2: healthy_nodes + unhealthy_nodes = node_count, and the status is
\* Critical whenever unhealthy_nodes > 0, whatever the pods are.
C2_NodeCountsAndCritical ==
    HealthReturned =>
        LET h == ret.value
        IN  /\ h.healthy_nodes + h.unhealthy_nodes = h.node_count
            /\ h.node_count = Len(ListedNodes)
            /\ h.unhealthy_nodes > 0 => h.overall_status = "Critical"

C2_Witness ==
    /\ HealthReturned
    /\ ret.value.unhealthy_nodes = 1
    /\ ret.value.healthy_nodes = 1
    /\ ret.value.total_pods = 2
    /\ ret.value.running_pods = 2
    /\ ret.value.warnings = <<>>

\* C3: the finding lists are in rule order: in critical_issues the nodes
\* entry precedes the failed-pods entry, in warnings the pending entry
\* precedes the high-restart entry, and recommendations is exactly the
\* node-replacement text iff unhealthy_nodes > 0, then the resource text iff
\* pending_pods > 0, then the restart text iff some pod has restarts > 5.
C3_ListsInRuleOrder ==
    HealthReturned =>
        LET h == ret.value
            nodesEntry == ToString(h.unhealthy_nodes) \o " nodes are not ready"
            failedEntry == ToString(h.failed_pods) \o " pods are in failed state"
            pendingEntry == ToString(h.pending_pods) \o " pods are pending"
        IN  /\ \A i, j \in 1..Len(h.critical_issues) :
                   (h.critical_issues[i] = nodesEntry /\ h.critical_issues[j] = failedEntry)
                       => i < j
            /\ \A i, j \in 1..Len(h.warnings) :
                   (h.warnings[i] = pendingEntry /\ h.warnings[j] \in RestartEntries)
                       => i < j
            /\ h.recommendations =
                   (IF h.unhealthy_nodes > 0
                    THEN <<"Investigate unhealthy nodes and consider replacement">>
                    ELSE <<>>)
                   \o (IF h.pending_pods > 0
                       THEN <<"Check resource constraints and node availability">>
                       ELSE <<>>)
                   \o (IF OverFive # {}
                       THEN <<"Investigate pods with high restart counts for stability issues">>
                       ELSE <<>>)

C3_Witness ==
    /\ HealthReturned
    /\ ret.value.critical_issues = <<"1 nodes are not ready", "1 pods are in failed state">>
    /\ ret.value.warnings = <<"1 pods are pending", "1 pods have high restart counts">>
    /\ Len(ret.value.recommendations) = 3

\* C4: the restart threshold is exclusive at 5: the high-restart warning and
\* recommendation appear iff some pod has more than 5 restarts, and the
\* warning carries the number of pods with more than 5 restarts.
C4_RestartThresholdExclusive ==
    HealthReturned =>
        LET h == ret.value
            k == Cardinality(OverFive)
        IN  /\ k > 0 => InSeq(ToString(k) \o " pods have high restart counts", h.warnings)
            /\ \A e \in RestartEntries :
                   InSeq(e, h.warnings) => (k > 0 /\ e = ToString(k) \o " pods have high restart counts")
            /\ InSeq("Investigate pods with high restart counts for stability issues",
                     h.recommendations) <=> k > 0

C4_Witness ==
    /\ HealthReturned
    /\ \E i \in 1..Len(ListedPods) : pod_restarts(ListedPods[i]) = 5
    /\ \E i \in 1..Len(ListedPods) : pod_restarts(ListedPods[i]) = 6
    /\ ret.value.warnings = <<"1 pods have high restart counts">>

\* a listing that succeeded: exit 0, JSON, every item with its required fields
NodesListed ==
    /\ env.nodes.code = 0 /\ env.nodes.json
    /\ \A i \in 1..Len(ListedNodes) : node_item_ok(ListedNodes[i])
PodsListed ==
    /\ env.pods.code = 0 /\ env.pods.json
    /\ \A i \in 1..Len(ListedPods) : pod_item_ok(ListedPods[i])

\* C5: when the listing succeeds and the usage snapshot exits non-zero,
\* get_nodes_metrics and get_pods_metrics (either scope) return one record
\* per listed object, in listing order, each with cpu_usage = memory_usage =
\* "N/A", and no exception escapes.
C5_SnapshotFailureDegrades ==
    /\ (Returned("get_nodes_status") /\ NodesListed /\ env.nodes_top.code # 0) =>
           /\ ret.exc = "none"
           /\ Len(ret.value) = Len(ListedNodes)
           /\ \A i \in 1..Len(ret.value) :
                  /\ ret.value[i].name = Get(ListedNodes[i].name)
                  /\ ret.value[i].cpu_usage = "N/A"
                  /\ ret.value[i].memory_usage = "N/A"
    /\ (Returned("get_pods_status") /\ PodsListed /\ env.pods_top.code # 0) =>
           /\ ret.exc = "none"
           /\ Len(ret.value) = Len(ListedPods)
           /\ \A i \in 1..Len(ret.value) :
                  /\ ret.value[i].name = Get(ListedPods[i].name)
                  /\ ret.value[i].cpu_usage = "N/A"
                  /\ ret.value[i].memory_usage = "N/A"

C5_Witness ==
    /\ Returned("get_nodes_status")
    /\ NodesListed
    /\ env.nodes_top.code # 0
    /\ \E i \in 1..Len(env.nodes_top.stdout) :
           /\ Len(env.nodes_top.stdout[i]) >= 3
           /\ env.nodes_top.stdout[i][1] = "node-1"
    /\ Len(ret.value) = 2
    /\ ret.value[1].cpu_usage = "N/A"

\* C6: a listing that is valid JSON but not of the expected shape never
\* makes get_nodes_metrics, get_pods_metrics or analyze_cluster_health raise.
C6_MalformedListingNeverRaises ==
    (pc = "returned"
     /\ tool \in {"get_nodes_status", "get_pods_status", "cluster_health_check"})
        => ret.exc = "none"

KarpenterReturned == Returned("analyze_karpenter")

\* C7: when the deployment probe exits non-zero, analyze_karpenter returns
\* installed = false, version = None, node_pools = [], provisioned_nodes = 0
\* and no issues, and issues no further probe; installed = false implies
\* every other field is at its default.
C7_AbsentDeploymentDefaults ==
    KarpenterReturned =>
        LET k == ret.value
            AtDefaults == /\ k.version = Absent
                          /\ k.node_pools = <<>>
                          /\ k.provisioned_nodes = 0
                          /\ k.issues = <<>>
        IN  /\ ret.exc = "none"
            /\ env.deployment.code # 0 =>
                   /\ ~k.installed
                   /\ AtDefaults
                   /\ ret.calls = <<"get deployment karpenter">>
            /\ ~k.installed => AtDefaults

C7_Witness ==
    /\ KarpenterReturned
    /\ env.deployment.code # 0
    /\ env.nodepools.code = 0 /\ env.nodepools.json
    /\ env.provisioned.code = 0 /\ env.provisioned.json
    /\ Len(GetOr(env.provisioned.items, <<>>)) = 2
    /\ ~ret.value.installed

\* the payload of a probe is malformed (the probe itself exited 0)
VersionStepMalformed ==
    \/ ~env.deployment.json
    \/ ~Has(env.deployment.containers)
    \/ first_karpenter(Get(env.deployment.containers)).exc
NodePoolStepMalformed ==
    /\ env.nodepools.code = 0
    /\ \/ ~env.nodepools.json
       \/ \E i \in 1..Len(GetOr(env.nodepools.items, <<>>)) :
              ~Has(Get(env.nodepools.items)[i].name)
ProvisionedStepMalformed ==
    env.provisioned.code = 0 /\ ~env.provisioned.json
ProvisionedCount ==
    IF env.provisioned.code = 0 /\ env.provisioned.json
    THEN Len(GetOr(env.provisioned.items, <<>>)) ELSE 0

\* C8 as claimed: a failure of the node-pool probe (non-zero exit or
\* malformed payload) leaves provisioned_nodes at 0.
C8_AnyFailureTruncates ==
    (KarpenterReturned /\ env.deployment.code = 0
     /\ (env.nodepools.code # 0 \/ NodePoolStepMalformed))
        => ret.value.provisioned_nodes = 0

\* C8 amended: a malformed payload at a step after the presence check ends
\* the analysis: the fields filled before keep their values, later fields
\* stay at their defaults and no later probe is issued.  A non-zero exit of
\* the node-pool probe only leaves node_pools empty: the provisioned-node
\* probe is still issued and fills provisioned_nodes.
C8_MalformedPayloadTruncates ==
    (KarpenterReturned /\ env.deployment.code = 0) =>
        LET k == ret.value
        IN  /\ k.installed
            /\ VersionStepMalformed =>
                   /\ k.version = Absent /\ k.node_pools = <<>> /\ k.provisioned_nodes = 0
                   /\ ret.calls = <<"get deployment karpenter">>
            /\ (~VersionStepMalformed /\ NodePoolStepMalformed) =>
                   /\ k.version = first_karpenter(Get(env.deployment.containers)).version
                   /\ k.node_pools = <<>> /\ k.provisioned_nodes = 0
                   /\ ret.calls = <<"get deployment karpenter", "get nodepools">>
            /\ (~VersionStepMalformed /\ env.nodepools.code # 0) =>
                   /\ k.version = first_karpenter(Get(env.deployment.containers)).version
                   /\ k.node_pools = <<>>
                   /\ k.provisioned_nodes = ProvisionedCount
                   /\ ret.calls[Len(ret.calls)] = "get nodes -l karpenter.sh/provisioner-name"

C8_Witness ==
    /\ KarpenterReturned
    /\ env.deployment.code = 0 /\ ~VersionStepMalformed
    /\ env.nodepools.code # 0
    /\ ret.value.version = Some("v0.32.1")
    /\ ret.value.provisioned_nodes = 2

\* C9 as claimed: every probe failure after the presence check is recorded
\* in issues, so installed = true with no issues means every probe succeeded.
C9_EveryFailureRecorded ==
    (KarpenterReturned /\ ret.exc = "none"
     /\ ret.value.installed /\ ret.value.issues = <<>>)
        => /\ ~VersionStepMalformed
           /\ env.nodepools.code = 0 /\ ~NodePoolStepMalformed
           /\ env.provisioned.code = 0 /\ ~ProvisionedStepMalformed

\* C9 amended: no exception escapes analyze_karpenter; a malformed payload at
\* a step after the presence check is recorded as the one entry of issues; a
\* non-zero exit of a later probe is not recorded.  So installed = true with
\* no issues means no step met a malformed payload.
C9_MalformedPayloadRecorded ==
    KarpenterReturned =>
        /\ ret.exc = "none"
        /\ Len(ret.value.issues) <= 1
        /\ ret.value.issues # <<>> <=>
               /\ env.deployment.code = 0
               /\ \/ VersionStepMalformed
                  \/ NodePoolStepMalformed
                  \/ ProvisionedStepMalformed

C9_Witness ==
    /\ KarpenterReturned
    /\ env.deployment.code = 0 /\ ~VersionStepMalformed
    /\ env.nodepools.code = 0 /\ ~NodePoolStepMalformed
    /\ ProvisionedStepMalformed
    /\ ret.value.issues = <<"Error analyzing Karpenter: JSONDecodeError">>

SupportedFormats == {"json", "markdown", "yaml"}

\* C10: generate_health_report with a format outside {json, markdown, yaml}
\* returns an explicit unsupported result, never a report in one of the
\* supported formats.
C10_UnknownFormatRejected ==
    (Returned("generate_health_report") /\ ret.exc = "none"
     /\ Has(env.arguments.format) /\ Get(env.arguments.format) \notin SupportedFormats)
        => ret.value.encoding \notin SupportedFormats

ReportReturned == Returned("generate_health_report") /\ ret.exc = "none"
StructuredReport == ReportReturned /\ ret.value.encoding \in {"json", "yaml"}
MarkdownReport == ReportReturned /\ ret.value.encoding = "markdown"

\* the records the handler fetched for the report itself
FetchedNodes == get_nodes_metrics(env.nodes, env.nodes_top).value
FetchedPods == get_pods_metrics(env.pods, env.pods_top, "all").value

\* C11: the JSON and YAML reports serialize every component of the data
\* bundle: the ClusterHealth, every NodeRecord, every PodRecord, the
\* autoscaler status, the GitOps status, the generation timestamp and the
\* provider identifier.
C11_StructuredReportComplete ==
    StructuredReport =>
        LET r == ret.value
        IN  /\ {"cluster_health", "nodes", "pods", "karpenter", "argocd",
                "generated_at", "provider"} \subseteq DOMAIN r
            /\ r.nodes = FetchedNodes
            /\ r.pods = FetchedPods
            /\ r.generated_at = env.now
            /\ r.provider = provider

\* C14: in every report the ClusterHealth summary and the listed node
\* records agree: node_count is the number of node records of the report and
\* unhealthy_nodes the number of them with status "NotReady", also when the
\* cluster changes between the fetches of the invocation.
C14_SummaryMatchesRecords ==
    ReportReturned =>
        LET r == ret.value
            h == IF r.encoding = "markdown" THEN r.summary ELSE r.cluster_health
            listed == IF r.encoding = "markdown" THEN r.node_heading ELSE Len(r.nodes)
            recs == IF r.encoding = "markdown" THEN r.node_rows ELSE r.nodes
        IN  /\ h.node_count = listed
            /\ h.unhealthy_nodes =
                   Cardinality({i \in 1..Len(recs) : recs[i].status = "NotReady"})

\* C16: the report is determined by what is passed to the renderer (health,
\* nodes, pods, autoscaler and GitOps status, include_recommendations): it
\* depends on no clock reading and no process-wide state read by the
\* renderer itself, so a render at another clock reading or under another
\* detected provider gives the same output.
C16_RenderReadsOnlyItsArguments ==
    ReportReturned =>
        \A t \in Clock, p \in Providers :
            generate_health_report(env.arguments, [env EXCEPT !.now = t], p).value
                = ret.value

ArgoReturned == Returned("get_argocd_status")
ListedApps == GetOr(env.applications.items, <<>>)

\* the application listing succeeded: exit 0, JSON, every entry well formed
AppsListed ==
    /\ env.applications.code = 0 /\ env.applications.json
    /\ \A i \in 1..Len(ListedApps) :
           Has(ListedApps[i].name) /\ Has(ListedApps[i].repo)

\* C17: health_status is "<h>/<t> Healthy" and sync_status "<s>/<t> Synced"
\* exactly when the application listing succeeded with t > 0 applications,
\* h and s counting the entries whose health is "Healthy" and whose sync is
\* "Synced" (an absent field counts as "Unknown"); in every other outcome
\* both stay "Unknown".
C17_ArgoRatios ==
    ArgoReturned =>
        LET a == ret.value
            t == Len(ListedApps)
            h == Cardinality({i \in 1..t : ListedApps[i].health = <<"Healthy">>})
            s == Cardinality({i \in 1..t : ListedApps[i].sync = <<"Synced">>})
        IN  /\ ret.exc = "none"
            /\ (AppsListed /\ t > 0) =>
                   /\ a.health_status = ToString(h) \o "/" \o ToString(t) \o " Healthy"
                   /\ a.sync_status = ToString(s) \o "/" \o ToString(t) \o " Synced"
                   /\ Len(a.applications) = t
            /\ ~(AppsListed /\ t > 0) =>
                   /\ a.health_status = "Unknown"
                   /\ a.sync_status = "Unknown"

C17_Witness ==
    /\ ArgoReturned
    /\ Len(ListedApps) = 2
    /\ \E i \in 1..2 : ListedApps[i].sync = Absent
    /\ ret.value.health_status = "1/2 Healthy"
    /\ ret.value.sync_status = "1/2 Synced"

Min2(a, b) == IF a < b THEN a ELSE b

\* C12: for a node list of length n the node table of the markdown report
\* has exactly min(n, 10) rows, the first min(n, 10) node records in list
\* order, and the "more nodes" note, carrying n - 10, appears iff n > 10.
C12_NodeTableCappedAtTen ==
    MarkdownReport =>
        LET r == ret.value
            n == Len(FetchedNodes)
        IN  /\ r.node_heading = n
            /\ Len(r.node_rows) = Min2(n, 10)
            /\ \A i \in 1..Len(r.node_rows) :
                   /\ r.node_rows[i].name = FetchedNodes[i].name
                   /\ r.node_rows[i].status = FetchedNodes[i].status
            /\ (r.more_nodes # Absent) <=> (n > 10)
            /\ n > 10 => r.more_nodes = <<n - 10>>

C12_Witness ==
    /\ MarkdownReport
    /\ Len(FetchedNodes) = 15
    /\ Len(ret.value.node_rows) = 10
    /\ ret.value.node_rows[10].name = "node-10"
    /\ ret.value.more_nodes = <<5>>

\* the positions, in input order, of the pods that are not Running or have
\* more than 5 restarts
ProblemPositions(pods) ==
    {i \in 1..Len(pods) : pods[i].status # "Running" \/ pods[i].restarts > 5}
\* the position of the j-th problem pod
NthProblem(positions, j) ==
    CHOOSE i \in positions : Cardinality({m \in positions : m < i}) = j - 1

\* C13: the problem-pods table of the markdown report holds exactly the first
\* min(k, 20) of the k pods whose status is not "Running" or whose restarts
\* exceed 5, in input order; a Running pod with restarts <= 5 never appears
\* and there are never more than 20 rows.
C13_ProblemPodsCappedAtTwenty ==
    MarkdownReport =>
        LET rows == ret.value.problem_rows
            pods == FetchedPods
            positions == ProblemPositions(pods)
            k == Cardinality(positions)
        IN  /\ ret.value.problem_heading = (IF k > 0 THEN <<k>> ELSE Absent)
            /\ Len(rows) = Min2(k, 20)
            /\ Len(rows) <= 20
            /\ \A j \in 1..Len(rows) :
                   LET p == pods[NthProblem(positions, j)]
                   IN  /\ rows[j].name = p.name
                       /\ rows[j].status = p.status
                       /\ rows[j].restarts = p.restarts
                       /\ ~(rows[j].status = "Running" /\ rows[j].restarts <= 5)

C13_Witness ==
    /\ MarkdownReport
    /\ Len(ret.value.problem_rows) = 20
    /\ ret.value.problem_rows[1].name = "pod-2"
    /\ ret.value.problem_rows[20].name = "pod-30"
    /\ LET pods == FetchedPods
       IN  /\ Len(pods) = 32
           /\ pods[1].status = "Running" /\ pods[1].restarts = 5
           /\ Cardinality(ProblemPositions(pods)) = 21

-----------------------------------------------------------------------------
(* One external fetch, at the granularity of its suspension point.
   execute_kubectl and execute_helm start a subprocess and then await
   process.communicate(); the handlers kubectl_query and helm_query make
   exactly one such fetch each. *)

\* a command line as the caller passes it: a sequence of words and blanks
Blank == " "
Commands ==
    {<<>>, <<"version">>, <<"get", Blank, "pods">>,
     <<"get", Blank, "pods", Blank, "-w">>, <<"logs", Blank, Blank, "-f">>}

\* command.split(): the words, blanks dropped
split(command) == SelectSeq(command, LAMBDA w : w # Blank)

ExitCodes == {0, 1}
OutputTexts == {"", "text"}

\* what the started subprocess will do: whether it ever exits and, if it
\* does, what it wrote and its return code
Process(exits, out, err, code) ==
    [spawned |-> TRUE, exits |-> exits, stdout |-> out, stderr |-> err, returncode |-> code]
\* create_subprocess_exec raises (binary not found)
SpawnError == [spawned |-> FALSE, error |-> "No such file or directory"]
Processes ==
    {Process(x, o, e, c) : x \in BOOLEAN, o \in OutputTexts, e \in OutputTexts, c \in ExitCodes}
        \cup {SpawnError}

\* the (stdout, stderr, code) triple of the except branch
fetch_failed(e) == [stdout |-> "", stderr |-> e, returncode |-> 1]
\* the triple built from the finished process
fetch_done(p) == [stdout |-> p.stdout, stderr |-> p.stderr, returncode |-> p.returncode]

\* the result dict of kubectl_query / helm_query
query_result(binary, command, fetched) ==
    [command |-> <<binary, Blank>> \o command, returncode |-> fetched.returncode,
     stdout |-> fetched.stdout, stderr |-> fetched.stderr]

\* the handler up to its await: the subprocess is started with the split
\* arguments; when starting it raises, the except branch answers at once
start_query(name, binary, command, p) ==
    /\ tool' = name
    /\ env' = [arguments |-> [command |-> command], binary |-> binary,
               args |-> split(command), process |-> p]
    /\ UNCHANGED provider
    /\ IF p.spawned
       THEN pc' = "awaiting" /\ ret' = NoValue
       ELSE /\ pc' = "returned"
            /\ ret' = Return(query_result(binary, command, fetch_failed(p.error)),
                             <<<<binary>> \o split(command)>>)

kubectl_query ==
    /\ pc = "idle"
    /\ \E command \in Commands, p \in Processes :
        start_query("kubectl_query", "kubectl", command, p)

helm_query ==
    /\ pc = "idle"
    /\ \E command \in Commands, p \in Processes :
        start_query("helm_query", "helm", command, p)

\* process.communicate() completes, which it does only when the subprocess
\* exits; nothing else resumes the handler
communicate_returns ==
    /\ pc = "awaiting"
    /\ env.process.exits
    /\ pc' = "returned"
    /\ ret' = Return(query_result(env.binary, env.arguments.command, fetch_done(env.process)),
                     <<<<env.binary>> \o env.args>>)
    /\ UNCHANGED <<tool, env, provider>>

NextFetch ==
    \/ kubectl_query
    \/ helm_query
    \/ communicate_returns
    \/ Respond

SpecFetch == Init /\ [][NextFetch]_vars

\* C15: every external fetch is bounded by a timeout, so an invocation that
\* is waiting for an external command can always make progress towards its
\* result, even if the command never exits.
C15_AwaitedFetchAlwaysResumes ==
    pc = "awaiting" => ENABLED NextFetch

====
